---- MODULE Spec2Model ----
(***************************************************************************)
(* A model of the validation engine of src/validator.py (class            *)
(* DataValidator): construction with schema loading, load_data, the       *)
(* structural, referential and field checks, the report writer and        *)
(* run_all, together with the files the engine reads and writes.          *)
(***************************************************************************)
EXTENDS Integers, Sequences, FiniteSets, TLC

VARIABLES
    files,            \* the three CSV sources on disk: readable flag and parsed content
    schema_file,      \* the schema YAML on disk
    report_dir,       \* whether the report files can be opened for writing
    now,              \* wall clock, in whole seconds (the resolution of the report names)
    disk,             \* report files written so far: file name -> content
    used,             \* run_all has been called on the engine instance in use
    attorneys_df,     \* DataValidator.attorneys_df
    cases_df,         \* DataValidator.cases_df
    time_entries_df,  \* DataValidator.time_entries_df
    schema,           \* DataValidator.schema
    error_details,    \* DataValidator.error_details
    call,             \* what the last call on the engine did
    history           \* one entry per finished run_all: inputs and exposed finding log

vars == <<files, schema_file, report_dir, now, disk, used, attorneys_df, cases_df,
          time_entries_df, schema, error_details, call, history>>

----------------------------------------------------------------------------
(* Bounds of the model *)

MaxRows == 2      \* rows per table
MaxRuns == 2      \* run_all calls in one behaviour
MaxClock == 1     \* last second of the wall clock

----------------------------------------------------------------------------
(* Sequences *)

RECURSIVE SeqsUpTo(_, _)
SeqsUpTo(S, n) ==
    IF n = 0 THEN {<<>>}
    ELSE LET shorter == SeqsUpTo(S, n - 1)
         IN  shorter \cup {Append(q, x) : q \in {p \in shorter : Len(p) = n - 1}, x \in S}

RECURSIVE Concat(_)
Concat(ss) == IF ss = <<>> THEN <<>> ELSE Head(ss) \o Concat(Tail(ss))

Indices(s) == 1..Len(s)

----------------------------------------------------------------------------
(* Tables, columns and cells *)

Tables == {"attorneys", "pro_bono_cases", "time_entries"}

expected_attorneys ==
    {"attorney_id", "first_name", "last_name", "email", "department", "bar_admission_date"}
expected_cases ==
    {"case_id", "attorney_id", "title", "status", "start_date", "closed_date"}
expected_time_entries ==
    {"entry_id", "case_id", "attorney_id", "hours", "date"}

Expected(t) ==
    CASE t = "attorneys" -> expected_attorneys
      [] t = "pro_bono_cases" -> expected_cases
      [] t = "time_entries" -> expected_time_entries

\* Field order of the row models, the order in which pydantic reports errors.
AttorneyModelFields ==
    <<"attorney_id", "first_name", "last_name", "email", "department", "bar_admission_date">>
CaseModelFields ==
    <<"case_id", "attorney_id", "title", "status", "start_date", "closed_date">>
TimeEntryModelFields ==
    <<"entry_id", "case_id", "attorney_id", "hours", "date">>

IdCols == {"attorney_id", "case_id", "entry_id"}
TextCols == {"first_name", "last_name", "department", "title", "status"}
DateCols == {"bar_admission_date", "start_date", "closed_date", "date"}

\* Cells as pandas.read_csv delivers them.  An id is an integer.  A text cell is a
\* string, the empty cell being the missing value (NaN).  An email is the sequence of
\* its character classes: "w" a run of word characters, ".", "-", "@", " ".  A date
\* cell is missing, a text of the shape YYYY-MM-DD with its three numbers, or some
\* other text.  An hours cell is missing, a number (in tenths) or a non-numeric text.
NaNText == ""
NaNEmail == <<>>
NaNDate == [form |-> "nan", y |-> 0, m |-> 0, d |-> 0]
NotADate == [form |-> "text", y |-> 0, m |-> 0, d |-> 0]
Ymd(y, m, d) == [form |-> "ymd", y |-> y, m |-> m, d |-> d]
NaNHours == [form |-> "nan", tenths |-> 0]
NotANumber == [form |-> "text", tenths |-> 0]
Hours(t) == [form |-> "num", tenths |-> t]

IsNull(col, cell) ==
    CASE col \in IdCols -> FALSE
      [] col \in TextCols -> cell = NaNText
      [] col = "email" -> cell = NaNEmail
      [] col \in DateCols -> cell.form = "nan"
      [] col = "hours" -> cell.form = "nan"

Pad2(n) == IF n < 10 THEN "0" \o ToString(n) ELSE ToString(n)

\* str(value), as the f-strings of the findings print a cell
Str(col, cell) ==
    CASE col \in IdCols -> ToString(cell)
      [] col \in TextCols -> IF cell = NaNText THEN "nan" ELSE cell
      [] col = "email" -> IF cell = NaNEmail THEN "nan" ELSE ToString(cell)
      [] col \in DateCols ->
            IF cell.form = "nan" THEN "nan"
            ELSE IF cell.form = "text" THEN "not_a_date"
            ELSE ToString(cell.y) \o "-" \o Pad2(cell.m) \o "-" \o Pad2(cell.d)
      [] col = "hours" ->
            IF cell.form = "nan" THEN "nan"
            ELSE IF cell.form = "text" THEN "not_a_number"
            ELSE ToString(cell.tenths) \o "/10"

\* A data frame: None, or the columns it has and its rows in source order.  A row
\* is a record over all column names; only the cells of the frame's columns exist.
NoneDf == [isNone |-> TRUE, cols |-> {}, rows |-> <<>>]
Frame(cols, rows) == [isNone |-> FALSE, cols |-> cols, rows |-> rows]

\* set(df[col]) of pandas; callers test col \in df.cols first, a missing column
\* being a KeyError
Values(df, col) == {df.rows[i][col] : i \in Indices(df.rows)}

\* df.isnull().sum().sum()
NullCount(df) ==
    Cardinality({<<i, c>> \in Indices(df.rows) \X df.cols : IsNull(c, df.rows[i][c])})

\* Series.duplicated() with the row itself taken for an earlier one
DuplicatedFromSelf(df, col, i) == \E j \in 1..i : df.rows[j][col] = df.rows[i][col]

\* Series.duplicated(): a row is flagged when an earlier row has the same value
Duplicated(df, col, i) == \E j \in 1..(i - 1) : df.rows[j][col] = df.rows[i][col]
DuplicatedSum(df, col) == Cardinality({i \in Indices(df.rows) : Duplicated(df, col, i)})
DuplicatedAny(df, col) == \E i \in Indices(df.rows) : Duplicated(df, col, i)

\* Row identifier printed in the findings: index + 2 (the model's rows count from 1,
\* the frame's index from 0)
RowId(i) == (i - 1) + 2

----------------------------------------------------------------------------
(* Findings: the entries of error_details.  Each message of the code is a     *)
(* record holding the message's kind (its fixed text), the names of the     *)
(* values its f-string prints (prints) and those values.                     *)

Finding(kind, tbl, col, prints, n, row, val, cols) ==
    [kind |-> kind, tbl |-> tbl, col |-> col, prints |-> prints, n |-> n, row |-> row,
     val |-> val, cols |-> cols]

\* a fixed text
Msg(kind) == Finding(kind, "", "", {}, 0, 0, "", {})
\* a fixed text about one table or column
MsgTbl(kind, tbl) == Finding(kind, tbl, "", {}, 0, 0, "", {})
MsgCol(kind, tbl, col) == Finding(kind, tbl, col, {}, 0, 0, "", {})
\* a text printing a count
Summary(kind, tbl, col, n) == Finding(kind, tbl, col, {"n"}, n, 0, "", {})
\* a text printing a row identifier and the offending value
Detail(kind, tbl, col, row, val) == Finding(kind, tbl, col, {"row", "val"}, 0, row, val, {})

----------------------------------------------------------------------------
(* The schema: None (an empty YAML document), or a mapping.  Only the        *)
(* foreign_keys entries are read by the engine; an entry maps                *)
(* <<table, column>> to the "table.column" it references, kept as the pair   *)
(* that split('.') yields.                                                   *)

NoFks == [k \in {} |-> <<"", "">>]
NoneSchema == [isNone |-> TRUE, fks |-> NoFks]
EmptySchema == [isNone |-> FALSE, fks |-> NoFks]
SchemaOf(fks) == [isNone |-> FALSE, fks |-> fks]

CaseAttorneyFk == <<"pro_bono_cases", "attorney_id">>
EntryCaseFk == <<"time_entries", "case_id">>
EntryAttorneyFk == <<"time_entries", "attorney_id">>

\* self.schema[table]["foreign_keys"][column] succeeds
HasFk(sch, key) == ~sch.isNone /\ key \in DOMAIN sch.fks
\* the exception the failing lookup raises
FkLookupError(sch) == IF sch.isNone THEN "TypeError" ELSE "KeyError"

\* self.df_name_map
df_name_map == [t \in Tables |->
    CASE t = "attorneys" -> "attorneys_df"
      [] t = "pro_bono_cases" -> "cases_df"
      [] t = "time_entries" -> "time_entries_df"]

\* getattr(self, attr)
GetAttr(s, attr) ==
    CASE attr = "attorneys_df" -> s.attorneys_df
      [] attr = "cases_df" -> s.cases_df
      [] attr = "time_entries_df" -> s.time_entries_df

----------------------------------------------------------------------------
(* The methods of DataValidator, as functions of the engine's state s: its   *)
(* fields, the report files, the exception raised so far ("none" while the   *)
(* call is running normally) and the methods entered.                        *)

\* an assignment of the new findings in place of the list
AddInPlaceOf(s, fs) == [s EXCEPT !.error_details = fs]

\* self.error_details.append(msg), for each of the findings fs in turn
Add(s, fs) == [s EXCEPT !.error_details = @ \o fs]
Raise(s, exc) == [s EXCEPT !.raised = exc]
Enter(s, method) == [s EXCEPT !.steps = Append(@, method)]
Running(s) == s.raised = "none"

\* DataValidator.__init__: the fields of a new engine
NewEngine(sf) ==
    [attorneys_df |-> NoneDf, cases_df |-> NoneDf, time_entries_df |-> NoneDf,
     schema |-> IF sf.loadable THEN sf.content ELSE EmptySchema,
     error_details |-> IF sf.loadable THEN <<>> ELSE <<Msg("schema_load_failed")>>]

\* pd.read_csv of one source: the frame, when the file can be read
ReadCsv(f) == Frame(f.cols, f.rows)

\* DataValidator.load_data: the three reads in order inside one try; the first
\* failing read leaves the later frames as they were and appends one finding.
LoadData(s0, fs) ==
    LET s == Enter(s0, "load_data")
    IN  IF ~fs["attorneys"].readable
        THEN Add(s, <<MsgTbl("load_failed", "attorneys")>>)
        ELSE LET s1 == [s EXCEPT !.attorneys_df = ReadCsv(fs["attorneys"])]
             IN  IF ~fs["pro_bono_cases"].readable
                 THEN Add(s1, <<MsgTbl("load_failed", "pro_bono_cases")>>)
                 ELSE LET s2 == [s1 EXCEPT !.cases_df = ReadCsv(fs["pro_bono_cases"])]
                      IN  IF ~fs["time_entries"].readable
                          THEN Add(s2, <<MsgTbl("load_failed", "time_entries")>>)
                          ELSE [s2 EXCEPT !.time_entries_df = ReadCsv(fs["time_entries"])]

\* a finding that lists the table's expected columns instead of the missing ones
MissingFindingOfExpected(t, missing) ==
    Finding("missing_columns", t, "", {"cols"}, 0, 0, "", Expected(t))

\* f"Missing columns in {table} file: {missing}"
MissingFinding(t, missing) ==
    Finding("missing_columns", t, "", {"cols"}, 0, 0, "", missing)

\* DataValidator.check_required_columns
CheckRequiredColumns(s0) ==
    LET s == Enter(s0, "check_required_columns")
        missing_attorneys == expected_attorneys \ s.attorneys_df.cols
        missing_cases == expected_cases \ s.cases_df.cols
        missing_time_entries == expected_time_entries \ s.time_entries_df.cols
    IN  Add(s,
            (IF missing_attorneys # {}
                THEN <<MissingFinding("attorneys", missing_attorneys)>> ELSE <<>>)
         \o (IF missing_cases # {}
                THEN <<MissingFinding("pro_bono_cases", missing_cases)>> ELSE <<>>)
         \o (IF missing_time_entries # {}
                THEN <<MissingFinding("time_entries", missing_time_entries)>> ELSE <<>>)
         \o (IF missing_attorneys = {} /\ missing_cases = {} /\ missing_time_entries = {}
                THEN <<Msg("all_columns_present")>> ELSE <<>>))

\* The duplicate-id finding (validate_data_integrity, "Duplicate IDs"): a fixed
\* text either way, carrying neither a count nor the ids.
DuplicateFinding(df) ==
    IF DuplicatedAny(df, "attorney_id")
    THEN Msg("duplicate_ids")
    ELSE Msg("no_duplicate_ids")

\* the set difference with its operands exchanged
InvalidRefsSwapped(df, col, ref_df, ref_col) == Values(ref_df, ref_col) \ Values(df, col)

\* set(df[col]) - set(ref_df[ref_col])
InvalidRefs(df, col, ref_df, ref_col) == Values(df, col) \ Values(ref_df, ref_col)

\* the number printed in a relation's summary finding: len(invalid)
SummaryCount(invalid) == Cardinality(invalid)

\* the per-row findings of one relation: every row whose value is in the violating
\* set, in row order
RECURSIVE FkDetails(_, _, _, _, _)
FkDetails(t, df, col, invalid, i) ==
    IF i > Len(df.rows) THEN <<>>
    ELSE (IF df.rows[i][col] \in invalid
             THEN <<Detail("fk_detail", t, col, RowId(i), Str(col, df.rows[i][col]))>>
             ELSE <<>>)
         \o FkDetails(t, df, col, invalid, i + 1)

\* the summary finding of a relation with violations, followed by its details
FkViolationFindings(t, df, col, invalid) ==
    <<Summary("fk_summary", t, col, SummaryCount(invalid))>>
    \o FkDetails(t, df, col, invalid, 1)

\* validate_data_integrity, the check of cases.attorney_id
CasesFkCheck(s) ==
    IF ~HasFk(s.schema, CaseAttorneyFk) THEN Raise(s, FkLookupError(s.schema))
    ELSE LET case_fk == s.schema.fks[CaseAttorneyFk]
             ref_df_name == case_fk[1]
             ref_col == case_fk[2]
         IN  IF ref_df_name \notin DOMAIN df_name_map THEN Raise(s, "KeyError")
             ELSE LET ref_df == GetAttr(s, df_name_map[ref_df_name])
                  IN  IF "attorney_id" \notin s.cases_df.cols \/ ref_col \notin ref_df.cols
                      THEN Raise(s, "KeyError")
                      ELSE LET invalid ==
                                   InvalidRefs(s.cases_df, "attorney_id", ref_df, ref_col)
                           IN  IF invalid # {}
                               THEN Add(s, FkViolationFindings("pro_bono_cases", s.cases_df,
                                                               "attorney_id", invalid))
                               ELSE Add(s, <<MsgTbl("fk_ok", "pro_bono_cases")>>)

\* validate_data_integrity, the checks of time_entries.case_id and .attorney_id
TimeEntriesFkCheck(s) ==
    IF ~HasFk(s.schema, EntryCaseFk) \/ ~HasFk(s.schema, EntryAttorneyFk)
    THEN Raise(s, FkLookupError(s.schema))
    ELSE LET te_case_fk == s.schema.fks[EntryCaseFk]
             te_att_fk == s.schema.fks[EntryAttorneyFk]
         IN  IF te_case_fk[1] \notin DOMAIN df_name_map
                \/ te_att_fk[1] \notin DOMAIN df_name_map
             THEN Raise(s, "KeyError")
             ELSE LET te_case_df == GetAttr(s, df_name_map[te_case_fk[1]])
                      te_att_df == GetAttr(s, df_name_map[te_att_fk[1]])
                      te == s.time_entries_df
                  IN  IF \/ "case_id" \notin te.cols
                         \/ te_case_fk[2] \notin te_case_df.cols
                         \/ "attorney_id" \notin te.cols
                         \/ te_att_fk[2] \notin te_att_df.cols
                      THEN Raise(s, "KeyError")
                      ELSE LET invalid_case_ids ==
                                   InvalidRefs(te, "case_id", te_case_df, te_case_fk[2])
                               invalid_attorney_ids_time_entries ==
                                   InvalidRefs(te, "attorney_id", te_att_df, te_att_fk[2])
                           IN  Add(s,
                                  (IF invalid_case_ids # {}
                                   THEN FkViolationFindings("time_entries", te, "case_id",
                                                            invalid_case_ids)
                                   ELSE <<>>)
                               \o (IF invalid_attorney_ids_time_entries # {}
                                   THEN FkViolationFindings("time_entries", te, "attorney_id",
                                                            invalid_attorney_ids_time_entries)
                                   ELSE <<>>)
                               \o (IF invalid_case_ids = {}
                                      /\ invalid_attorney_ids_time_entries = {}
                                   THEN <<MsgTbl("fk_ok", "time_entries")>>
                                   ELSE <<>>))

----------------------------------------------------------------------------
(* The report writer *)

\* a report file name: f"validation_report_{timestamp}.{ext}"
ReportName(ext, ts) == [ext |-> ext, ts |-> ts]

\* open(name, 'w') ... : the file holds exactly what this write put there
WriteFile(d, name, content) ==
    [f \in DOMAIN d \cup {name} |-> IF f = name THEN content ELSE d[f]]

\* the metric rows of the report up to the duplicate count (lines 339-348)
NullAndDuplicateRows(s) ==
    << <<"Nulls in attorneys file", NullCount(s.attorneys_df)>>,
       <<"Nulls in cases file", NullCount(s.cases_df)>>,
       <<"Nulls in time_entries file", NullCount(s.time_entries_df)>>,
       <<"Duplicate attorney_id in attorneys file",
         DuplicatedSum(s.attorneys_df, "attorney_id")>> >>

\* the foreign-key metric rows: against the fixed target columns, not the schema's
ForeignKeyRows(s) ==
    << <<"Invalid attorney_id references in cases file",
         Cardinality(InvalidRefs(s.cases_df, "attorney_id", s.attorneys_df, "attorney_id"))>>,
       <<"Invalid case_id references in time_entries file",
         Cardinality(InvalidRefs(s.time_entries_df, "case_id", s.cases_df, "case_id"))>>,
       <<"Invalid attorney_id references in time_entries file",
         Cardinality(InvalidRefs(s.time_entries_df, "attorney_id",
                                 s.attorneys_df, "attorney_id"))>> >>

ReportContent(complete, metrics, details) ==
    [complete |-> complete, metrics |-> metrics, details |-> details]

\* with open(name, 'w') as file: ... : the name is opened for writing, which creates
\* or truncates the file, and the rows are written
WriteReport(s, name, content) ==
    [s EXCEPT !.disk = WriteFile(@, name, content), !.opened = Append(@, name)]

\* DataValidator.export_validation_report.  csv_ts and json_ts are the two readings
\* of datetime.now(); dir tells which of the two files can be opened for writing.
\* A KeyError while the CSV is being written leaves the rows written so far.
ExportValidationReport(s0, dir, csv_ts, json_ts) ==
    LET s == Enter(s0, "export_validation_report")
        report_file == ReportName("csv", csv_ts)
        json_report_file == ReportName("json", json_ts)
    IN  IF dir = "csv_fails" THEN Raise(s, "OSError")
        ELSE IF "attorney_id" \notin s.attorneys_df.cols
        THEN Raise(WriteReport(s, report_file,
                        ReportContent(FALSE, SubSeq(NullAndDuplicateRows(s), 1, 3), <<>>)),
                   "KeyError")
        ELSE IF \/ "attorney_id" \notin s.cases_df.cols
                \/ "case_id" \notin s.time_entries_df.cols
                \/ "case_id" \notin s.cases_df.cols
                \/ "attorney_id" \notin s.time_entries_df.cols
        THEN Raise(WriteReport(s, report_file,
                        ReportContent(FALSE, NullAndDuplicateRows(s), <<>>)),
                   "KeyError")
        ELSE LET metrics == NullAndDuplicateRows(s) \o ForeignKeyRows(s)
                 s1 == WriteReport(s, report_file,
                                   ReportContent(TRUE, metrics, s.error_details))
             IN  IF dir = "json_fails" THEN Raise(s1, "OSError")
                 ELSE WriteReport(s1, json_report_file,
                                  ReportContent(TRUE, metrics, s.error_details))

\* DataValidator.validate_data_integrity
ValidateDataIntegrity(s0, dir, csv_ts, json_ts) ==
    LET s == Enter(s0, "validate_data_integrity")
    IN  IF "attorney_id" \notin s.attorneys_df.cols THEN Raise(s, "KeyError")
        ELSE LET s1 == Add(s, <<DuplicateFinding(s.attorneys_df)>>)
                 s2 == CasesFkCheck(s1)
                 s3 == IF Running(s2) THEN TimeEntriesFkCheck(s2) ELSE s2
             IN  IF Running(s3) THEN ExportValidationReport(s3, dir, csv_ts, json_ts)
                 ELSE s3

----------------------------------------------------------------------------
(* Field formats *)

IsLeap(y) == (y % 4 = 0 /\ y % 100 # 0) \/ y % 400 = 0

DaysInMonth(y, m) ==
    CASE m \in {1, 3, 5, 7, 8, 10, 12} -> 31
      [] m \in {4, 6, 9, 11} -> 30
      [] m = 2 -> IF IsLeap(y) THEN 29 ELSE 28
      [] OTHER -> 0

\* the text names a day of the calendar
IsCalendarDate(c) ==
    c.form = "ymd" /\ c.y >= 1 /\ c.m \in 1..12 /\ c.d >= 1 /\ c.d <= DaysInMonth(c.y, c.m)

\* datetime.strptime(v, "%Y-%m-%d") succeeds
StrptimeOk(c) == IsCalendarDate(c)

\* pd.to_datetime(column, errors='coerce') yields NaT for the cell
CoercedToNaT(c) == ~IsCalendarDate(c)

IsWordish(tok) == tok \in {"w", ".", "-"}

\* the column sweep's pattern ^[\w\.-]+@[\w\.-]+\.\w+$
EmailPatternMatches(e) ==
    \E i \in 2..Len(e) :
        /\ e[i] = "@"
        /\ \A k \in 1..(i - 1) : IsWordish(e[k])
        /\ \E j \in (i + 2)..(Len(e) - 1) :
              /\ e[j] = "."
              /\ \A k \in (i + 1)..(j - 1) : IsWordish(e[k])
              /\ \A k \in (j + 1)..Len(e) : e[k] = "w"

\* pydantic's EmailStr accepts the text: one "@", a dot-atom before it, and after it
\* at least two labels separated by dots
EmailStrOk(e) ==
    \E i \in 2..(Len(e) - 1) :
        /\ e[i] = "@"
        /\ \A k \in Indices(e) : k # i => IsWordish(e[k])
        /\ e[1] # "." /\ e[i - 1] # "."
        /\ \A k \in 1..(i - 2) : ~(e[k] = "." /\ e[k + 1] = ".")
        /\ e[i + 1] = "w" /\ e[Len(e)] = "w"
        /\ \A k \in (i + 1)..(Len(e) - 1) : e[k] # "w" => e[k + 1] = "w"
        /\ \E k \in (i + 1)..Len(e) : e[k] = "."

allowed_statuses == {"open", "closed", "pending"}

----------------------------------------------------------------------------
(* The column-level sweeps of validate_formats_and_values *)

\* the rows a sweep reports, in row order, as detail findings
RECURSIVE SweepDetails(_, _, _, _, _, _)
SweepDetails(kind, t, df, col, bad(_), i) ==
    IF i > Len(df.rows) THEN <<>>
    ELSE (IF bad(df.rows[i][col])
             THEN <<Detail(kind, t, col, RowId(i), Str(col, df.rows[i][col]))>>
             ELSE <<>>)
         \o SweepDetails(kind, t, df, col, bad, i + 1)

\* one sweep: a summary with the number of reported rows and a detail per reported
\* row, or else one success finding
Sweep(name, t, df, col, bad(_)) ==
    LET details == SweepDetails(name \o "_detail", t, df, col, bad, 1)
    IN  IF details # <<>>
        THEN <<Summary(name \o "_summary", t, col, Len(details))>> \o details
        ELSE <<MsgCol(name \o "_ok", t, col)>>

\* Series.str raises AttributeError on a column holding no string: read_csv types a
\* non-empty column of empty cells as float
StrAccessorFails(df, col) ==
    df.rows # <<>> /\ \A i \in Indices(df.rows) : IsNull(col, df.rows[i][col])

\* ~contains(pattern, na=False)
EmailSwept(e) == ~(e # NaNEmail /\ EmailPatternMatches(e))
\* parsed.isna() & column.notna()
DateSwept(c) == CoercedToNaT(c) /\ c.form # "nan"
\* ~isin(allowed_statuses)
StatusSwept(v) == v \notin allowed_statuses

EmailSweep(df) == Sweep("email", "attorneys", df, "email", EmailSwept)
DateSweep(t, df, col) == Sweep("date", t, df, col, DateSwept)
StatusSweep(df) == Sweep("status", "pro_bono_cases", df, "status", StatusSwept)

----------------------------------------------------------------------------
(* The row models (AttorneyModel, CaseModel, TimeEntryModel) *)

FieldError(t, col, msg) == Finding("field_error", t, col, {"msg"}, 0, 0, msg, {})

\* BaseValidatorModel.parse_date_field behind the field's str type
DateFieldErrors(t, col, c) ==
    IF c.form = "nan" THEN <<FieldError(t, col, "Input should be a valid string")>>
    ELSE IF ~StrptimeOk(c)
    THEN <<FieldError(t, col, "Value error, Invalid " \o col
                               \o " format (expected YYYY-MM-DD)")>>
    ELSE <<>>

\* a str field
TextFieldErrors(t, col, v) ==
    IF v = NaNText THEN <<FieldError(t, col, "Input should be a valid string")>> ELSE <<>>

\* CaseModel.validate_status_enum behind the field's str type
StatusFieldErrors(t, col, v) ==
    IF v = NaNText THEN <<FieldError(t, col, "Input should be a valid string")>>
    ELSE IF v \notin allowed_statuses
    THEN <<FieldError(t, col, "Value error, Invalid status")>>
    ELSE <<>>

\* the EmailStr field
EmailFieldErrors(t, col, e) ==
    IF e = NaNEmail THEN <<FieldError(t, col, "Input should be a valid string")>>
    ELSE IF ~EmailStrOk(e)
    THEN <<FieldError(t, col, "value is not a valid email address")>>
    ELSE <<>>

\* TimeEntryModel.validate_hours behind the field's float type: a missing cell is
\* the float nan, which is a float and is not below zero
HoursFieldErrors(t, col, h) ==
    IF h.form = "text"
    THEN <<FieldError(t, col, "Input should be a valid number, unable to parse string as a number")>>
    ELSE IF h.form = "num" /\ h.tenths < 0
    THEN <<FieldError(t, col, "Value error, hours cannot be negative")>>
    ELSE <<>>

\* the errors of one field of one row; a field whose column the frame lacks is
\* missing from row.to_dict()
FieldErrors(t, df, row, col) ==
    IF col \notin df.cols THEN <<FieldError(t, col, "Field required")>>
    ELSE CASE col \in IdCols -> <<>>
           [] col \in DateCols -> DateFieldErrors(t, col, row[col])
           [] col = "status" -> StatusFieldErrors(t, col, row[col])
           [] col = "email" -> EmailFieldErrors(t, col, row[col])
           [] col = "hours" -> HoursFieldErrors(t, col, row[col])
           [] OTHER -> TextFieldErrors(t, col, row[col])

\* e.errors() of Model(**row.to_dict()): the errors of all fields, in field order
RowErrors(t, df, row, fields) ==
    Concat([k \in Indices(fields) |-> FieldErrors(t, df, row, fields[k])])

\* the loop over df.iterrows(): for each row with errors, one "Row N failed"
\* finding followed by one finding per error
RECURSIVE RowValidation(_, _, _, _)
RowValidation(t, df, fields, i) ==
    IF i > Len(df.rows) THEN <<>>
    ELSE LET errs == RowErrors(t, df, df.rows[i], fields)
         IN  (IF errs # <<>>
                 THEN <<Finding("row_failed", t, "", {"row"}, 0, RowId(i), "", {})>> \o errs
                 ELSE <<>>)
             \o RowValidation(t, df, fields, i + 1)

\* DataValidator.validate_formats_and_values
ValidateFormatsAndValues(s0) ==
    LET s == Enter(s0, "validate_formats_and_values")
        att == s.attorneys_df
        cases == s.cases_df
        te == s.time_entries_df
    IN  IF "email" \in att.cols /\ StrAccessorFails(att, "email")
        THEN Raise(s, "AttributeError")
        ELSE Add(s,
                (IF "email" \in att.cols THEN EmailSweep(att) ELSE <<>>)
             \o RowValidation("attorneys", att, AttorneyModelFields, 1)
             \o (IF "bar_admission_date" \in att.cols
                    THEN DateSweep("attorneys", att, "bar_admission_date") ELSE <<>>)
             \o (IF "start_date" \in cases.cols
                    THEN DateSweep("pro_bono_cases", cases, "start_date") ELSE <<>>)
             \o (IF "closed_date" \in cases.cols
                    THEN DateSweep("pro_bono_cases", cases, "closed_date") ELSE <<>>)
             \o (IF "status" \in cases.cols THEN StatusSweep(cases) ELSE <<>>)
             \o RowValidation("pro_bono_cases", cases, CaseModelFields, 1)
             \o RowValidation("time_entries", te, TimeEntryModelFields, 1))

\* DataValidator.get_error_details: the findings joined line by line, or the
\* fallback text when there are none
GetErrorDetailsText(details) ==
    IF details = <<>> THEN <<Msg("no_validation_errors")>> ELSE details

\* DataValidator.run_all on the engine state s, reading the sources fs
RunAllOn(s, fs, dir, csv_ts, json_ts) ==
    LET s1 == LoadData(s, fs)
    IN  IF ~s1.attorneys_df.isNone /\ ~s1.cases_df.isNone /\ ~s1.time_entries_df.isNone
        THEN LET s2 == CheckRequiredColumns(s1)
                 s3 == ValidateDataIntegrity(s2, dir, csv_ts, json_ts)
             IN  IF Running(s3) THEN ValidateFormatsAndValues(s3) ELSE s3
        ELSE s1

----------------------------------------------------------------------------
(* The inputs: the content of the three sources, the schema file and the     *)
(* state of the report directory.                                            *)

AttorneyRow(id, email, bar) ==
    [attorney_id |-> id, first_name |-> "Jane", last_name |-> "Doe", email |-> email,
     department |-> "IP", bar_admission_date |-> bar]
CaseRow(id, att, status, start, closed) ==
    [case_id |-> id, attorney_id |-> att, title |-> "Title", status |-> status,
     start_date |-> start, closed_date |-> closed]
EntryRow(id, case, att, hours, date) ==
    [entry_id |-> id, case_id |-> case, attorney_id |-> att, hours |-> hours,
     date |-> date]

GoodEmail == <<"w", ".", "w", "@", "w", ".", "w">>
NoAtEmail == <<"w", ".", "w", "w", ".", "w">>
GoodDate == Ymd(2024, 1, 15)
NoSuchDay == Ymd(2024, 2, 30)

EmailSamples == {GoodEmail, NoAtEmail, NaNEmail}
DateSamples == {GoodDate, NoSuchDay, NotADate, NaNDate}
HoursSamples == {Hours(35), Hours(-10), NotANumber, NaNHours}

File(readable, cols, rows) == [readable |-> readable, cols |-> cols, rows |-> rows]

\* tables whose rows differ in their keys only.  Case and entry ids follow the row
\* position; attorneys 3 and 4 and case 12 are ids no attorney or case row has.
KeyAttorneys ==
    {[i \in Indices(ids) |-> AttorneyRow(ids[i], GoodEmail, GoodDate)] :
        ids \in SeqsUpTo({1, 2}, MaxRows)}
KeyCases ==
    {[i \in Indices(atts) |-> CaseRow(9 + i, atts[i], "open", GoodDate, GoodDate)] :
        atts \in SeqsUpTo({1, 3, 4}, MaxRows)}
KeyEntries ==
    {[i \in Indices(refs) |-> EntryRow(50 + i, refs[i][1], refs[i][2], Hours(35), GoodDate)] :
        refs \in SeqsUpTo({<<10, 1>>, <<12, 1>>, <<12, 3>>}, MaxRows)}

\* tables whose rows differ in their formatted fields only, one field at a time
AttorneyFormats ==
    {<<e, GoodDate>> : e \in EmailSamples} \cup {<<GoodEmail, d>> : d \in DateSamples}
CaseFormats ==
    {<<"open", d, NaNDate>> : d \in DateSamples}
    \cup {<<"archived", GoodDate, GoodDate>>, <<"closed", GoodDate, NoSuchDay>>}
EntryFormats ==
    {<<h, GoodDate>> : h \in HoursSamples} \cup {<<Hours(35), d>> : d \in DateSamples}

FormatAttorneys ==
    {[i \in Indices(fs) |-> AttorneyRow(i, fs[i][1], fs[i][2])] :
        fs \in SeqsUpTo(AttorneyFormats, MaxRows)}
FormatCases ==
    {[i \in Indices(fs) |-> CaseRow(9 + i, 1, fs[i][1], fs[i][2], fs[i][3])] :
        fs \in SeqsUpTo(CaseFormats, MaxRows)}
FormatEntries ==
    {[i \in Indices(fs) |-> EntryRow(50 + i, 10, 1, fs[i][1], fs[i][2])] :
        fs \in SeqsUpTo(EntryFormats, MaxRows)}

BaseAttorneys == <<AttorneyRow(1, GoodEmail, GoodDate)>>
BaseCases == <<CaseRow(10, 1, "open", GoodDate, GoodDate)>>
BaseEntries == <<EntryRow(51, 10, 1, Hours(35), GoodDate)>>

\* the columns a source may lack
DroppableAttorneys == {"attorney_id", "email", "bar_admission_date"}
DroppableCases == {"attorney_id", "case_id", "status"}
DroppableEntries == {"attorney_id", "case_id", "date"}

Sources(att_cols, att_rows, case_cols, case_rows, te_cols, te_rows, readable) ==
    [t \in Tables |->
        CASE t = "attorneys" -> File(readable[t], att_cols, att_rows)
          [] t = "pro_bono_cases" -> File(readable[t], case_cols, case_rows)
          [] t = "time_entries" -> File(readable[t], te_cols, te_rows)]

FullSources(att_rows, case_rows, te_rows) ==
    Sources(expected_attorneys, att_rows, expected_cases, case_rows,
            expected_time_entries, te_rows, [t \in Tables |-> TRUE])

KeyInputs ==
    {FullSources(a, BaseCases, BaseEntries) : a \in KeyAttorneys}
    \cup {FullSources(BaseAttorneys, c, e) : c \in KeyCases, e \in KeyEntries}
FormatInputs ==
    {FullSources(a, BaseCases, BaseEntries) : a \in FormatAttorneys}
    \cup {FullSources(BaseAttorneys, c, BaseEntries) : c \in FormatCases}
    \cup {FullSources(BaseAttorneys, BaseCases, e) : e \in FormatEntries}
ColumnInputs ==
    {Sources(expected_attorneys \ da, BaseAttorneys, expected_cases \ dc, BaseCases,
             expected_time_entries \ de, BaseEntries, [t \in Tables |-> TRUE]) :
        da \in SUBSET DroppableAttorneys, dc \in SUBSET DroppableCases,
        de \in SUBSET DroppableEntries}
\* sources lacking a column no referential check reads, for use with every schema
ColumnSchemaInputs ==
    {Sources(expected_attorneys \ da, BaseAttorneys, expected_cases \ dc, BaseCases,
             expected_time_entries \ de, BaseEntries, [t \in Tables |-> TRUE]) :
        da \in {{}, {"email", "bar_admission_date"}}, dc \in {{}, {"status"}},
        de \in {{}, {"date"}}}
UnreadableInputs ==
    {Sources(expected_attorneys, BaseAttorneys, expected_cases, BaseCases,
             expected_time_entries, BaseEntries, r) : r \in [Tables -> BOOLEAN]}

\* the schema.yaml of the repository's data
StandardFks ==
    [k \in {CaseAttorneyFk, EntryCaseFk, EntryAttorneyFk} |->
        CASE k = CaseAttorneyFk -> <<"attorneys", "attorney_id">>
          [] k = EntryCaseFk -> <<"pro_bono_cases", "case_id">>
          [] k = EntryAttorneyFk -> <<"attorneys", "attorney_id">>]

SchemaFile(loadable, content) == [loadable |-> loadable, content |-> content]
StandardSchemaFile == SchemaFile(TRUE, SchemaOf(StandardFks))

\* schema files: the standard one, a missing or malformed one, an empty document,
\* one without the time_entries table, one without time_entries.attorney_id, and one
\* whose time_entries.attorney_id references the cases' attorney_id column
SchemaFiles ==
    { StandardSchemaFile,
      SchemaFile(FALSE, EmptySchema),
      SchemaFile(TRUE, NoneSchema),
      SchemaFile(TRUE, SchemaOf([k \in {CaseAttorneyFk} |-> StandardFks[k]])),
      SchemaFile(TRUE, SchemaOf([k \in {CaseAttorneyFk, EntryCaseFk} |-> StandardFks[k]])),
      SchemaFile(TRUE, SchemaOf([StandardFks EXCEPT
                                    ![EntryAttorneyFk] = <<"pro_bono_cases", "attorney_id">>])) }

ReportDirs == {"ok", "csv_fails", "json_fails"}

\* the inputs of an engine used on unchanging sources: tables that differ in one
\* respect at a time with the standard schema and a writable report directory,
\* every schema file, report directory state and set of readable sources with the
\* base tables, and every schema file with sources lacking columns
Inputs ==
    {<<f, StandardSchemaFile, "ok">> : f \in KeyInputs \cup FormatInputs \cup ColumnInputs}
    \cup {<<f, sf, dir>> : f \in UnreadableInputs, sf \in SchemaFiles, dir \in ReportDirs}
    \cup {<<f, sf, "ok">> : f \in ColumnSchemaInputs, sf \in SchemaFiles}

\* the inputs of a caller that makes several validations while the sources and the
\* clock change: readable sources with and without unknown references
ReuseInputs ==
    {<<FullSources(BaseAttorneys, c, BaseEntries), sf, dir>> :
        c \in {BaseCases, <<CaseRow(10, 3, "open", GoodDate, NaNDate)>>},
        sf \in {StandardSchemaFile, SchemaFile(FALSE, EmptySchema)},
        dir \in ReportDirs}

----------------------------------------------------------------------------
(* The state machine *)

NoCall == [op |-> "construct", raised |-> "none", steps |-> <<>>, before |-> <<>>,
           wrote |-> {}, opened |-> <<>>, existing |-> {}]

\* the engine's state as the methods take it
Self ==
    [attorneys_df |-> attorneys_df, cases_df |-> cases_df,
     time_entries_df |-> time_entries_df, schema |-> schema,
     error_details |-> error_details, disk |-> disk, raised |-> "none", steps |-> <<>>,
     opened |-> <<>>]

\* the fields of the engine after a constructor or method call
Install(e) ==
    /\ attorneys_df' = e.attorneys_df
    /\ cases_df' = e.cases_df
    /\ time_entries_df' = e.time_entries_df
    /\ schema' = e.schema
    /\ error_details' = e.error_details

\* the state after validator = DataValidator(...) on the inputs in
Constructed(in) ==
    /\ files = in[1]
    /\ schema_file = in[2]
    /\ report_dir = in[3]
    /\ now = 0
    /\ disk = [f \in {} |-> ReportContent(TRUE, <<>>, <<>>)]
    /\ used = FALSE
    /\ attorneys_df = NewEngine(in[2]).attorneys_df
    /\ cases_df = NewEngine(in[2]).cases_df
    /\ time_entries_df = NewEngine(in[2]).time_entries_df
    /\ schema = NewEngine(in[2]).schema
    /\ error_details = NewEngine(in[2]).error_details
    /\ call = NoCall
    /\ history = <<>>

Init == \E in \in Inputs : Constructed(in)

InitReuse == \E in \in ReuseInputs : Constructed(in)

\* a further DataValidator(...) on the same sources, as run_validation of main.py
\* makes for every validation
Construct ==
    /\ used' = FALSE
    /\ Install(NewEngine(schema_file))
    /\ call' = NoCall
    /\ UNCHANGED <<files, schema_file, report_dir, now, disk, history>>

Entered(steps, method) == \E i \in Indices(steps) : steps[i] = method

\* validator.run_all(); tick tells whether the clock's second changes between the
\* two readings of datetime.now() in the report writer
RunAll(tick) ==
    /\ Len(history) < MaxRuns
    /\ now + tick <= MaxClock
    /\ LET r == RunAllOn(Self, files, report_dir, now, now + tick)
       IN  /\ Install(r)
           /\ disk' = r.disk
           /\ now' = IF Entered(r.steps, "export_validation_report")
                     THEN now + tick ELSE now
           /\ call' = [op |-> "run_all", raised |-> r.raised, steps |-> r.steps,
                       before |-> error_details,
                       wrote |-> {f \in DOMAIN r.disk :
                                     f \notin DOMAIN disk \/ r.disk[f] # disk[f]},
                       opened |-> r.opened,
                       existing |-> DOMAIN disk]
           /\ history' = Append(history,
                  [fresh |-> ~used,
                   readable |-> [t \in Tables |-> files[t].readable],
                   raised |-> r.raised,
                   exposed |-> GetErrorDetailsText(r.error_details)])
    /\ used' = TRUE
    /\ UNCHANGED <<files, schema_file, report_dir>>

\* validator.get_error_details(): reads the findings and changes nothing of the
\* engine
GetErrorDetails ==
    /\ call.op = "run_all"
    /\ call' = [call EXCEPT !.op = "get_error_details"]
    /\ UNCHANGED <<files, schema_file, report_dir, now, disk, used, attorneys_df,
                   cases_df, time_entries_df, schema, error_details, history>>

\* a source is removed or becomes unreadable between two calls
SourceLost(t) ==
    /\ \A u \in Tables : files[u].readable
    /\ files' = [files EXCEPT ![t].readable = FALSE]
    /\ UNCHANGED <<schema_file, report_dir, now, disk, used, attorneys_df, cases_df,
                   time_entries_df, schema, error_details, call, history>>

\* the clock's second changes between two calls
Tick ==
    /\ now < MaxClock
    /\ now' = now + 1
    /\ UNCHANGED <<files, schema_file, report_dir, disk, used, attorneys_df, cases_df,
                   time_entries_df, schema, error_details, call, history>>

\* one engine instance on unchanging sources
Next ==
    \/ RunAll(0)
    \/ GetErrorDetails

Spec == Init /\ [][Next]_vars

\* a caller that constructs engines and runs them while sources and clock change
NextReuse ==
    \/ \E tick \in {0, 1} : RunAll(tick)
    \/ Construct
    \/ GetErrorDetails
    \/ \E t \in Tables : SourceLost(t)
    \/ Tick

SpecReuse == InitReuse /\ [][NextReuse]_vars

----------------------------------------------------------------------------
(* Reading the state: the last run_all call and what it appended *)

\* the frame of a table
TableDf(t) ==
    CASE t = "attorneys" -> attorneys_df
      [] t = "pro_bono_cases" -> cases_df
      [] t = "time_entries" -> time_entries_df

AllLoaded == \A t \in Tables : ~TableDf(t).isNone

\* the findings the last call appended
Appended == SubSeq(error_details, Len(call.before) + 1, Len(error_details))

\* the positions in Appended of the findings of one kind about one table and column
FindingsOf(kind, t, col) ==
    {k \in Indices(Appended) :
        Appended[k].kind = kind /\ Appended[k].tbl = t /\ Appended[k].col = col}

\* the last run_all reached the named method
Reached(method) == Entered(call.steps, method)

\* the sources that could be read when the last run_all was made
ReadableAtCall == history[Len(history)].readable

\* the last run_all completed every step
RunCompleted == Reached("validate_formats_and_values") /\ call.raised = "none"

FkKeys == {CaseAttorneyFk, EntryCaseFk, EntryAttorneyFk}

\* the values of the referencing column that the referenced column lacks, and the
\* rows carrying them, read from the frames and the schema
ReferencedValues(key) ==
    LET ref == TableDf(schema.fks[key][1])
    IN  {ref.rows[i][schema.fks[key][2]] : i \in Indices(ref.rows)}
Violating(key) ==
    {TableDf(key[1]).rows[i][key[2]] : i \in Indices(TableDf(key[1]).rows)}
        \ ReferencedValues(key)
OffendingRows(key) ==
    {i \in Indices(TableDf(key[1]).rows) :
        TableDf(key[1]).rows[i][key[2]] \notin ReferencedValues(key)}

----------------------------------------------------------------------------
(* C1: run_all never raises to its caller: whatever the schema, the sources, *)
(* their columns and the report directory, the call returns normally.        *)
RunAllNeverRaises == call.raised = "none"

(* C2: when one of the three sources cannot be loaded during run_all, only   *)
(* load_data runs in that call, no report file is written by it and the      *)
(* findings it appends are load-failure findings only.                       *)
TableLoadGate ==
    (call.op = "run_all" /\ \E t \in Tables : ~ReadableAtCall[t])
        => /\ call.steps = <<"load_data">>
           /\ call.wrote = {}
           /\ \A k \in Indices(Appended) : Appended[k].kind = "load_failed"

(* C3: with a schema file that cannot be loaded, construction records one    *)
(* schema-load finding and an empty schema, and run_all on three loadable     *)
(* sources returns normally after the remaining checks and the report.       *)
SchemaFailureTolerated ==
    ~schema_file.loadable
        => /\ schema = EmptySchema
           /\ Len(error_details) >= 1
           /\ error_details[1].kind = "schema_load_failed"
           /\ (call.op = "run_all" /\ AllLoaded /\ (\A t \in Tables : ReadableAtCall[t]))
                 => /\ call.raised = "none"
                    /\ Reached("export_validation_report")
                    /\ Reached("validate_formats_and_values")

(* C4, as claimed: for every foreign-key relation the count in the summary   *)
(* finding equals the number of per-row detail findings of that relation.    *)
FkSummaryCountEqualsDetailCount ==
    Reached("export_validation_report")
        => \A key \in FkKeys :
              \A k \in FindingsOf("fk_summary", key[1], key[2]) :
                  Appended[k].n = Cardinality(FindingsOf("fk_detail", key[1], key[2]))

(* C4, amended: for every foreign-key relation of a run whose referential    *)
(* checks completed, the violating set is the referencing values minus the   *)
(* referenced values; a non-empty violating set gives exactly one summary    *)
(* finding whose count is the number of distinct violating values, and one   *)
(* detail finding per row carrying a violating value, so the count is at     *)
(* most the number of detail findings; an empty one gives neither.           *)
FkSummaryCountsDistinctValues ==
    Reached("export_validation_report")
        => \A key \in FkKeys :
              LET summaries == FindingsOf("fk_summary", key[1], key[2])
                  details == FindingsOf("fk_detail", key[1], key[2])
              IN  /\ Violating(key) = {} => summaries = {} /\ details = {}
                  /\ Violating(key) # {} =>
                        /\ Cardinality(summaries) = 1
                        /\ \A k \in summaries :
                              /\ Appended[k].n = Cardinality(Violating(key))
                              /\ Appended[k].n <= Cardinality(details)
                              /\ \A d \in details : k < d
                  /\ Cardinality(details) = Cardinality(OffendingRows(key))
                  /\ {Appended[d].row : d \in details}
                        = {RowId(i) : i \in OffendingRows(key)}
                  /\ {Appended[d].val : d \in details}
                        = {ToString(v) : v \in Violating(key)}

\* a relation in which two rows carry the same unknown value was checked
FkSharedUnknownValue ==
    /\ Reached("export_validation_report")
    /\ \E key \in FkKeys :
          /\ Cardinality(Violating(key)) < Cardinality(OffendingRows(key))
          /\ FindingsOf("fk_summary", key[1], key[2]) # {}

(* C5: after a run_all that completed with the three tables loaded, the      *)
(* reports the run wrote hold the complete finding list: their details equal *)
(* error_details as it is at the end of the run.                             *)
ReportHoldsAllFindings ==
    (call.op = "run_all" /\ RunCompleted)
        => /\ call.wrote # {}
           /\ \A f \in call.wrote : disk[f].details = error_details

(* C6: two runs of run_all on identical sources and schema expose the same   *)
(* finding sequence through get_error_details, on a fresh engine or on the   *)
(* same one.                                                                 *)
RunsAreIdempotent ==
    \A i, j \in Indices(history) :
        history[i].readable = history[j].readable
            => history[i].exposed = history[j].exposed

\* the row Appended[k], a per-field finding of the row models, belongs to
RowFailedBefore(k) == {j \in 1..(k - 1) : Appended[j].kind = "row_failed"}
OwnerOf(k) == CHOOSE j \in RowFailedBefore(k) : \A h \in RowFailedBefore(k) : h <= j

\* some finding of the last call reports the date cell of row i of table t
DateCellReported(t, col, i) ==
    \/ \E k \in FindingsOf("date_detail", t, col) : Appended[k].row = RowId(i)
    \/ \E k \in FindingsOf("field_error", t, col) :
          /\ RowFailedBefore(k) # {}
          /\ Appended[OwnerOf(k)].tbl = t
          /\ Appended[OwnerOf(k)].row = RowId(i)

(* C7: in a completed run, every date cell that is not a calendar date is    *)
(* reported as invalid, and no finding of either validation layer reports a  *)
(* missing date cell.                                                        *)
AbsentDatePasses ==
    RunCompleted
        => \A t \in Tables : \A col \in DateCols \cap TableDf(t).cols :
              \A i \in Indices(TableDf(t).rows) :
                  LET cell == TableDf(t).rows[i][col]
                  IN  /\ (cell.form # "nan" /\ ~IsCalendarDate(cell))
                            => DateCellReported(t, col, i)
                      /\ cell.form = "nan" => ~DateCellReported(t, col, i)

(* C8: when a loaded table lacks expected columns, run_all records them and  *)
(* goes on: no check raises, and the later checks still run.                 *)
StructuralMismatchNonFatal ==
    (call.op = "run_all" /\ Reached("check_required_columns")
        /\ \E t \in Tables : Expected(t) \ TableDf(t).cols # {})
        => /\ \E k \in Indices(Appended) : Appended[k].kind = "missing_columns"
           /\ call.raised = "none"
           /\ Reached("validate_formats_and_values")

\* the duplicate check of the last call ran
DuplicateCheckRan ==
    Reached("validate_data_integrity") /\ "attorney_id" \in attorneys_df.cols

\* two rows of the attorneys frame share an attorney_id; the rows repeating an
\* earlier row's attorney_id
SharedAttorneyId ==
    \E i, j \in Indices(attorneys_df.rows) :
        i # j /\ attorneys_df.rows[i].attorney_id = attorneys_df.rows[j].attorney_id
RepeatingRows ==
    {i \in Indices(attorneys_df.rows) :
        \E j \in 1..(i - 1) :
            attorneys_df.rows[j].attorney_id = attorneys_df.rows[i].attorney_id}

(* C9, as claimed: when two attorney rows share an attorney_id the run       *)
(* appends the duplicate-key finding exactly once and that finding names the *)
(* number of duplicates; otherwise it appends one success finding.           *)
DuplicateFindingNamesCount ==
    DuplicateCheckRan
        => /\ SharedAttorneyId =>
                /\ Cardinality(FindingsOf("duplicate_ids", "", "")) = 1
                /\ \A k \in FindingsOf("duplicate_ids", "", "") :
                      "n" \in Appended[k].prints
                      /\ Appended[k].n = Cardinality(RepeatingRows)
           /\ ~SharedAttorneyId =>
                Cardinality(FindingsOf("no_duplicate_ids", "", "")) = 1

(* C9, amended: when two attorney rows share an attorney_id the run appends  *)
(* the duplicate-key failure finding exactly once and no success finding;    *)
(* the finding is a fixed text naming neither a count nor the ids, and the   *)
(* number of duplicates is the "Duplicate attorney_id" metric of the reports *)
(* the run writes; when no attorney_id repeats the run appends exactly one   *)
(* success finding and no failure finding.                                   *)
DuplicateFindingOnceWithoutCount ==
    DuplicateCheckRan
        => /\ SharedAttorneyId =>
                /\ Cardinality(FindingsOf("duplicate_ids", "", "")) = 1
                /\ FindingsOf("no_duplicate_ids", "", "") = {}
                /\ \A k \in FindingsOf("duplicate_ids", "", "") : Appended[k].prints = {}
           /\ ~SharedAttorneyId =>
                /\ Cardinality(FindingsOf("no_duplicate_ids", "", "")) = 1
                /\ FindingsOf("duplicate_ids", "", "") = {}
           /\ \A f \in call.wrote :
                 disk[f].complete =>
                    disk[f].metrics[4] = <<"Duplicate attorney_id in attorneys file",
                                           Cardinality(RepeatingRows)>>

\* a run on attorneys sharing an attorney_id wrote its reports
DuplicateIdsReported ==
    /\ DuplicateCheckRan
    /\ SharedAttorneyId
    /\ \E f \in call.wrote : disk[f].complete /\ f.ext = "json"

(* C10: when writing a report fails during a run, the findings of the checks *)
(* already made stay in error_details and the field validation still runs.   *)
ReportFailureKeepsChecks ==
    (call.op = "run_all" /\ Reached("export_validation_report") /\ call.raised = "OSError")
        => /\ Len(error_details) > Len(call.before)
           /\ SubSeq(error_details, 1, Len(call.before)) = call.before
           /\ Reached("validate_formats_and_values")

----------------------------------------------------------------------------
(* C11: no report is ever overwritten: every name a run opens for writing   *)
(* is a name no earlier write used, so no report file that existed before   *)
(* the run has another content after it; this for runs on one or several    *)
(* engines, at any clock times, two runs within one clock second included.  *)
NoReportOverwritten ==
    /\ \A k \in Indices(call.opened) : call.opened[k] \notin call.existing
    /\ call.wrote \cap call.existing = {}

----------------------------------------------------------------------------
\* the expected columns the loaded frame of a table lacks
MissingOf(t) == Expected(t) \ TableDf(t).cols

\* the positions in Appended of the missing-columns findings about a table
MissingFindingsOf(t) ==
    {k \in Indices(Appended) :
        Appended[k].kind = "missing_columns" /\ Appended[k].tbl = t}

(* C12: the structural checker is exact: for every combination of column    *)
(* sets of the three loaded tables it appends exactly one finding for each   *)
(* table that lacks an expected column, listing exactly the lacking columns, *)
(* and exactly one all-columns-present finding when no table lacks any; the  *)
(* outcome is the same whatever the schema holds.                            *)
StructuralCheckerExact ==
    Reached("check_required_columns")
        => /\ \A t \in Tables :
                /\ Cardinality(MissingFindingsOf(t)) = (IF MissingOf(t) # {} THEN 1 ELSE 0)
                /\ \A k \in MissingFindingsOf(t) :
                      /\ Appended[k].cols = MissingOf(t)
                      /\ Appended[k].prints = {"cols"}
           /\ Cardinality(FindingsOf("all_columns_present", "", ""))
                  = (IF \A t \in Tables : MissingOf(t) = {} THEN 1 ELSE 0)
           /\ \A sf \in SchemaFiles :
                  CheckRequiredColumns([Self EXCEPT !.schema = sf.content]).error_details
                      = CheckRequiredColumns(Self).error_details

\* a run on an attorneys table lacking two columns and a complete cases table, with
\* a schema other than the standard one
StructuralMismatchListed ==
    /\ Reached("check_required_columns")
    /\ MissingOf("attorneys") = {"email", "bar_admission_date"}
    /\ MissingOf("pro_bono_cases") = {}
    /\ MissingOf("time_entries") = {"date"}
    /\ MissingFindingsOf("attorneys") # {}
    /\ schema # StandardSchemaFile.content

----------------------------------------------------------------------------
\* p is a prefix of q
IsPrefix(p, q) == Len(p) <= Len(q) /\ SubSeq(q, 1, Len(p)) = p

\* the engine's finding log after a method is called in the current state
AfterLoadData == LoadData(Self, files).error_details
AfterCheckRequiredColumns == CheckRequiredColumns(Self).error_details
AfterValidateDataIntegrity ==
    ValidateDataIntegrity(Self, report_dir, now, now).error_details
AfterValidateFormatsAndValues == ValidateFormatsAndValues(Self).error_details
AfterExportValidationReport ==
    ExportValidationReport(Self, report_dir, now, now).error_details
AfterRunAll == RunAllOn(Self, files, report_dir, now, now).error_details

\* every method, called in the current state, extends the log; the report writer
\* leaves it as it is.  The methods that read the frames are called on loaded
\* frames only.
MethodsExtendLog ==
    /\ IsPrefix(error_details, AfterLoadData)
    /\ IsPrefix(error_details, AfterRunAll)
    /\ AllLoaded =>
          /\ IsPrefix(error_details, AfterCheckRequiredColumns)
          /\ IsPrefix(error_details, AfterValidateDataIntegrity)
          /\ IsPrefix(error_details, AfterValidateFormatsAndValues)
          /\ AfterExportValidationReport = error_details

\* a step of the caller: a new engine starts a log of its own, with at most the
\* schema-load finding; run_all extends the log; get_error_details and the steps
\* of the environment leave it as it is
StepExtendsLog ==
    IF call'.op = "construct" THEN Len(error_details') <= 1
    ELSE IF Len(history') > Len(history)
    THEN IsPrefix(error_details, error_details') /\ call'.before = error_details
    ELSE error_details' = error_details

(* C13: the finding accumulator is append-only: across every operation of   *)
(* the engine the log before the operation is a prefix of the log after it, *)
(* no entry being removed, reordered or deduplicated, and get_error_details *)
(* and the report writer leave the log unchanged.                           *)
AccumulatorAppendOnly == []MethodsExtendLog /\ [][StepExtendsLog]_vars

\* a second run on one engine has appended to the findings of the first, and
\* get_error_details has been called
SecondRunAppended ==
    /\ call.op = "get_error_details"
    /\ Len(history) = 2
    /\ ~history[2].fresh
    /\ Len(call.before) > 1
    /\ Len(error_details) > Len(call.before)

----------------------------------------------------------------------------
\* the positions in Appended of the success findings that speak of a relation: a
\* success finding about the relation's table, naming the relation's column or none
FkSuccessOf(key) ==
    {k \in Indices(Appended) :
        /\ Appended[k].kind = "fk_ok"
        /\ Appended[k].tbl = key[1]
        /\ Appended[k].col \in {"", key[2]}}

\* the j-th offending row of a relation, in source order
NthOffendingRow(key, j) ==
    CHOOSE i \in OffendingRows(key) :
        Cardinality({h \in OffendingRows(key) : h <= i}) = j

(* C14: each declared foreign-key relation is reported on its own: a        *)
(* relation without violations gets exactly one success finding, a relation *)
(* with violations one summary finding followed by its per-row findings in  *)
(* source row order; so when one of the two relations of time_entries is    *)
(* clean and the other is not, the clean one still gets its success finding.*)
EachRelationReported ==
    Reached("export_validation_report")
        => \A key \in FkKeys :
              IF Violating(key) = {}
              THEN /\ Cardinality(FkSuccessOf(key)) = 1
                   /\ FindingsOf("fk_summary", key[1], key[2]) = {}
                   /\ FindingsOf("fk_detail", key[1], key[2]) = {}
              ELSE /\ Cardinality(FindingsOf("fk_summary", key[1], key[2])) = 1
                   /\ Cardinality(FindingsOf("fk_detail", key[1], key[2]))
                          = Cardinality(OffendingRows(key))
                   /\ \A k \in FindingsOf("fk_summary", key[1], key[2]) :
                         \A j \in 1..Cardinality(OffendingRows(key)) :
                            /\ k + j \in FindingsOf("fk_detail", key[1], key[2])
                            /\ Appended[k + j].row = RowId(NthOffendingRow(key, j))

----------------------------------------------------------------------------
\* the row model of a table, as its fields in order
ModelFields(t) ==
    CASE t = "attorneys" -> AttorneyModelFields
      [] t = "pro_bono_cases" -> CaseModelFields
      [] t = "time_entries" -> TimeEntryModelFields

\* the fields of row i of a table that the table's row model rejects
ViolatedFields(t, i) ==
    {ModelFields(t)[f] : f \in {g \in Indices(ModelFields(t)) :
        FieldErrors(t, TableDf(t), TableDf(t).rows[i], ModelFields(t)[g]) # <<>>}}

\* the positions in Appended of the row-level summary findings about row i of a table
RowFailedAt(t, i) ==
    {k \in Indices(Appended) :
        /\ Appended[k].kind = "row_failed"
        /\ Appended[k].tbl = t
        /\ Appended[k].row = RowId(i)}

(* C15: row-level validation is collect-all: in each of the three tables    *)
(* every row that violates a field contract contributes exactly one summary *)
(* finding carrying its row identifier (index + 2), immediately followed by *)
(* one finding per violated field; the summaries of a table follow source   *)
(* row order, and a failing row prevents the validation of no later row and *)
(* of no later table.                                                       *)
RowValidationCollectsAll ==
    Reached("validate_formats_and_values")
        => \A t \in Tables : \A i \in Indices(TableDf(t).rows) :
              LET bad == ViolatedFields(t, i)
              IN  IF bad = {} THEN RowFailedAt(t, i) = {}
                  ELSE /\ Cardinality(RowFailedAt(t, i)) = 1
                       /\ \A k \in RowFailedAt(t, i) :
                             /\ k + Cardinality(bad) <= Len(Appended)
                             /\ \A j \in 1..Cardinality(bad) :
                                   /\ Appended[k + j].kind = "field_error"
                                   /\ Appended[k + j].tbl = t
                             /\ {Appended[k + j].col : j \in 1..Cardinality(bad)} = bad
                             /\ k + Cardinality(bad) < Len(Appended)
                                   => Appended[k + Cardinality(bad) + 1].kind # "field_error"
                             /\ \A h \in 1..(i - 1) : \A m \in RowFailedAt(t, h) : m < k

====
